---- MODULE Spec2Model ----
(***************************************************************************)
(* The movie record service: an Express application over one MongoDB       *)
(* collection.  The repository holds four near-duplicate versions of the   *)
(* same server; each is modelled, and `variant` says which one is running. *)
(*                                                                         *)
(*   "part_000"  src/unnamed/part_000          (ObjectId.isValid checks,   *)
(*               DELETE reads the caller email from header/query/body)     *)
(*   "part_001"  src/unnamed/part_001          (connects at start-up only, *)
(*               no identifier check)                                     *)
(*   "index_1"   src/index.js, lines 1-275     (lazy connect that swallows *)
(*               the connection error, no identifier check)               *)
(*   "index_2"   src/index.js, lines 277-632   (lazy connect, identifier   *)
(*               check, DELETE reads the caller email from the body only)  *)
(*                                                                         *)
(* A JavaScript value that may be undefined is an option set: {} is        *)
(* undefined, {x} is the value x.                                          *)
(***************************************************************************)
EXTENDS Integers, Sequences, FiniteSets, TLC

VARIABLES
    variant,          \* which of the four server files is running
    movieCollection,  \* the cached collection handle: "null" or "handle"
                      \* ("exited" once process.exit(1) has ended the server)
    storeUp,          \* whether the MongoDB deployment answers
    store,            \* the documents of the collection `movies`
    now,              \* the server clock, read by new Date()
    nextOid,          \* the driver's ObjectId generator
    slot              \* per request being handled: its position and locals

vars == <<variant, movieCollection, storeUp, store, now, nextOid, slot>>

(***************************************************************************)
(* Bounds of the model.                                                    *)
(***************************************************************************)
MaxOid == 1        \* ObjectIds the driver generates in one run
MaxClock == 2      \* distinct readings of the server clock
MaxListDocs == 2   \* documents of the collection a List query is run on
MaxTopDocs == 7    \* documents of the collection Recent and TopRated are run on
MaxSlots == 2      \* requests in flight at once, where requests overlap

\* .limit(5) of GET /top-rated and .limit(6) of GET /recent
TopRatedLimit == 5
RecentLimit == 6

Variants == {"part_000", "part_001", "index_1", "index_2"}

(***************************************************************************)
(* Strings that occur as identifiers.  A string is either the 24-digit     *)
(* hexadecimal spelling of the number n, or some other string.             *)
(***************************************************************************)
HexStr(n) == [hex |-> TRUE, n |-> n]
OtherStr == [hex |-> FALSE, n |-> 0]

\* ObjectId.isValid(id) for a string taken from the request path
isValid(s) == s.hex

\* new ObjectId(id): defined for valid strings only (it throws otherwise)
ObjectId(s) == [t |-> "oid", hex |-> TRUE, n |-> s.n]

\* a JSON string used as a document's _id stays a string
StrId(s) == [t |-> "str", hex |-> s.hex, n |-> s.n]

\* the ObjectId the driver generates for the k-th generated identifier
GenOid(k) == [t |-> "oid", hex |-> TRUE, n |-> k]

The(o) == CHOOSE x \in o : TRUE

\* JavaScript truthiness of an optional string
Truthy(o) == o # {} /\ o # {""}

Emails == {"a@x.com", "b@x.com"}

\* a time no reading of the server clock equals: what a client may submit
ClientTime == MaxClock + 1

(***************************************************************************)
(* Requests.  body is the parsed JSON body; hdr is the header user-email,  *)
(* qry the query parameter userEmail; genre, minRating, maxRating are the  *)
(* query parameters of GET /movies; email is the :email of /my-movies.     *)
(***************************************************************************)
EmptyBody ==
    [userEmail |-> {}, _id |-> {}, title |-> {}, addedBy |-> {},
     createdAt |-> {}, rating |-> {}, genre |-> {}]

Req(op, id, hdr, qry, body, genre, minRating, maxRating) ==
    [op |-> op, id |-> id, hdr |-> hdr, qry |-> qry, body |-> body,
     genre |-> genre, minRating |-> minRating, maxRating |-> maxRating, email |-> {}]

NoReq == Req("none", OtherStr, {}, {}, EmptyBody, {}, {}, {})

\* the path's :id: the spelling of a generated ObjectId, of one that is never
\* generated, or a string that spells none
PathIds == {HexStr(n) : n \in 1..MaxOid + 1} \cup {OtherStr}

EmailIn == {{}} \cup {{e} : e \in Emails}

GetReqs == {Req("get", id, {}, {}, EmptyBody, {}, {}, {}) : id \in PathIds}

CreateBodies ==
    {[EmptyBody EXCEPT !.title = t, !.addedBy = a, !.createdAt = c, !._id = i]
        : t \in {{}, {""}, {"T"}},
          a \in {{}, {""}} \cup {{e} : e \in Emails},
          c \in {{}, {ClientTime}},
          i \in {{}, {HexStr(1)}}}

CreateReqs == {Req("create", OtherStr, {}, {}, b, {}, {}, {}) : b \in CreateBodies}

\* the protected part of an update payload: nothing, or one protected field
ProtectedParts ==
    {EmptyBody,
     [EmptyBody EXCEPT !._id = {HexStr(MaxOid + 1)}],
     [EmptyBody EXCEPT !.addedBy = {"b@x.com"}],
     [EmptyBody EXCEPT !.createdAt = {ClientTime}]}

UpdateBodies ==
    {[p EXCEPT !.userEmail = u, !.rating = r]
        : p \in ProtectedParts, u \in EmailIn, r \in {{}, {10}}}

UpdateReqs ==
    {Req("update", id, {}, {}, b, {}, {}, {}) : id \in PathIds, b \in UpdateBodies}

DeleteReqs ==
    {Req("delete", id, h, q, [EmptyBody EXCEPT !.userEmail = u], {}, {}, {})
        : id \in PathIds, h \in EmailIn \cup {{""}}, q \in {{}, {"b@x.com"}},
          u \in EmailIn}

RatingIn == {{}, {""}, {"0"}, {"7"}, {"9"}, {"7abc"}}
GenreIn == {{}, {"Action"}, {"Action,Drama"}}

ListReqs ==
    {Req("list", OtherStr, {}, {}, EmptyBody, g, lo, hi)
        : g \in GenreIn, lo \in RatingIn, hi \in RatingIn}

\* requests on the record the first generated ObjectId names: a GetById, an
\* Update that sets the rating and a Delete, by the owner or by somebody else
RaceReqs ==
    {Req("get", HexStr(1), {}, {}, EmptyBody, {}, {}, {})}
    \cup {Req(op, HexStr(1), {}, {}, [EmptyBody EXCEPT !.userEmail = {e}, !.rating = r],
              {}, {}, {})
            : op \in {"update", "delete"}, e \in Emails, r \in {{10}}}

\* the owner's Updates of the record the first generated ObjectId names: any
\* of title, rating and genre named or not, with or without a protected
\* field; and the GetById of that record
MergeReqs ==
    {Req("get", HexStr(1), {}, {}, EmptyBody, {}, {}, {})}
    \cup {Req("update", HexStr(1), {}, {},
              [p EXCEPT !.userEmail = {"a@x.com"}, !.title = t, !.rating = r, !.genre = g],
              {}, {}, {})
            : p \in ProtectedParts, t \in {{}, {""}, {"U"}}, r \in {{}, {10}},
              g \in {{}, {{"Drama"}}}}

\* one request of every route that reads or writes the collection: on the
\* record the first generated ObjectId names, by its owner a@x.com
FaultReqs ==
    {Req(op, OtherStr, {}, {}, EmptyBody, {}, {}, {}) : op \in {"list", "top", "recent", "count"}}
    \cup {[Req("mine", OtherStr, {}, {}, EmptyBody, {}, {}, {}) EXCEPT !.email = {"a@x.com"}]}
    \cup {Req("get", id, {}, {}, EmptyBody, {}, {}, {}) : id \in {HexStr(1), OtherStr}}
    \cup {Req("create", OtherStr, {}, {},
              [EmptyBody EXCEPT !.title = t, !.addedBy = {"a@x.com"}], {}, {}, {})
            : t \in {{}, {"T"}}}
    \cup {Req(op, HexStr(1), {}, {},
              [EmptyBody EXCEPT !.userEmail = {"a@x.com"}, !.rating = {10}], {}, {}, {})
            : op \in {"update", "delete"}}

\* GET /top-rated and GET /recent take no input
TopReqs ==
    {Req(op, OtherStr, {}, {}, EmptyBody, {}, {}, {}) : op \in {"top", "recent"}}

CrudReqs == GetReqs \cup CreateReqs \cup UpdateReqs \cup DeleteReqs

(***************************************************************************)
(* Documents and the store's single-document primitives.                   *)
(***************************************************************************)
Doc(id, title, addedBy, createdAt, rating, genre) ==
    [_id |-> id, title |-> title, addedBy |-> addedBy, createdAt |-> createdAt,
     rating |-> rating, genre |-> genre]

\* collection.findOne({ _id }): the matching document, if any
findOne(st, id) == {d \in st : d._id = id}

\* the unique index on _id rejects a second document with the same _id
DuplicateKey(st, doc) == \E d \in st : d._id = doc._id

insertOne(st, doc) == st \cup {doc}

\* a slip: the document is replaced by the payload (no $set), and the fields
\* the payload does not name are lost
ReplaceFields(d, upd) ==
    [d EXCEPT !.title = upd.title, !.addedBy = upd.addedBy, !.createdAt = upd.createdAt,
              !.rating = upd.rating, !.genre = upd.genre]

\* { $set: upd } on one document: the fields named in upd take its values
SetFields(d, upd) ==
    [d EXCEPT !.title = IF upd.title # {} THEN upd.title ELSE @,
              !.addedBy = IF upd.addedBy # {} THEN upd.addedBy ELSE @,
              !.createdAt = IF upd.createdAt # {} THEN upd.createdAt ELSE @,
              !.rating = IF upd.rating # {} THEN upd.rating ELSE @,
              !.genre = IF upd.genre # {} THEN upd.genre ELSE @]

\* the server refuses a $set that would change the immutable field _id
ModifiesId(st, id, upd) ==
    \E d \in st : d._id = id /\ upd._id # {} /\ d._id # StrId(The(upd._id))

updateOne(st, id, upd) == {IF d._id = id THEN SetFields(d, upd) ELSE d : d \in st}

deleteOne(st, id) == {d \in st : d._id # id}

(***************************************************************************)
(* What differs between the four files.                                    *)
(***************************************************************************)
\* the handlers of /movies/:id test ObjectId.isValid(id) before the lookup
ChecksId(v) == v \in {"part_000", "index_2"}

\* connectDB() is awaited by every handler and connects on first use
LazyConnect(v) == v \in {"part_000", "index_1", "index_2"}

\* connectDB() catches the connection error and returns undefined
SwallowsConnectError(v) == v = "index_1"

\* DELETE answers 401 when it finds no caller email
RequiresEmail(v) == v = "part_000"

\* DELETE's caller email: a || b || c is the first truthy operand, else c
DeleteEmail(v, q) ==
    IF v = "part_000"
    THEN IF Truthy(q.hdr) THEN q.hdr
         ELSE IF Truthy(q.qry) THEN q.qry
         ELSE q.body.userEmail
    ELSE q.body.userEmail

\* PUT's caller email: const { userEmail, ...updateData } = req.body
UpdateEmail(q) == q.body.userEmail

\* a slip: the test is made only when a caller email came with the request
NotOwnerWhenGiven(movie, userEmail) == userEmail # {} /\ movie.addedBy # userEmail

\* the ownership test of PUT and DELETE: movie.addedBy !== userEmail
NotOwner(movie, userEmail) == movie.addedBy # userEmail

\* a slip: delete updateData.addedBy is left out
StripAllButAddedBy(body) == [body EXCEPT !.userEmail = {}, !._id = {}, !.createdAt = {}]

\* delete updateData._id; delete updateData.addedBy; delete updateData.createdAt
StripProtected(body) ==
    [body EXCEPT !.userEmail = {}, !._id = {}, !.addedBy = {}, !.createdAt = {}]

\* POST's validation: !movie.title || !movie.addedBy
MissingRequired(body) == ~Truthy(body.title) \/ ~Truthy(body.addedBy)

\* the _id insertOne stores: the document's own _id, else a generated one
InsertId(body, oid) == IF body._id # {} THEN StrId(The(body._id)) ELSE GenOid(oid)

\* a slip: movie.createdAt = movie.createdAt || new Date()
NewDocClientTime(body, nw, oid) ==
    Doc(InsertId(body, oid), body.title, body.addedBy,
        IF body.createdAt # {} THEN body.createdAt ELSE {nw}, body.rating, body.genre)

\* movie.createdAt = new Date(), then the document handed to insertOne
NewDoc(body, nw, oid) ==
    Doc(InsertId(body, oid), body.title, body.addedBy, {nw}, body.rating, body.genre)

(***************************************************************************)
(* GET /movies: the filter built from the query, and the sorted result.    *)
(***************************************************************************)
\* Number(s) of a query string; {} is NaN
NumberOf(s) ==
    CASE s = "0" -> {0} [] s = "7" -> {7} [] s = "9" -> {9} [] s = "" -> {0}
      [] OTHER -> {}

\* parseFloat(s) of a query string: the longest numeric prefix; {} is NaN
parseFloatOf(s) ==
    CASE s = "0" -> {0} [] s = "7" -> {7} [] s = "9" -> {9} [] s = "7abc" -> {7}
      [] OTHER -> {}

\* part_000 and index_2 convert a bound with Number, the others with parseFloat
ToBound(v, s) == IF v \in {"part_000", "index_2"} THEN NumberOf(s) ELSE parseFloatOf(s)

\* genre.split(',')
SplitTags(s) ==
    CASE s = "Action" -> {"Action"} [] s = "Action,Drama" -> {"Action", "Drama"}
      [] OTHER -> {s}

\* a slip: $gt in place of $gte
MatchGt(d, b) == d.rating # {} /\ b # {} /\ The(d.rating) > The(b)

\* { $gte: b }: a stored number at least b; a NaN bound matches no number
MatchGte(d, b) == d.rating # {} /\ b # {} /\ The(d.rating) >= The(b)

\* { $lte: b }
MatchLte(d, b) == d.rating # {} /\ b # {} /\ The(d.rating) <= The(b)

\* { genre: { $in: tags } }: the stored tag list holds one of the tags
MatchGenre(d, tags) == d.genre # {} /\ The(d.genre) \cap tags # {}

\* the filter of GET /movies applied to one document
Matches(v, q, d) ==
    /\ Truthy(q.genre) => MatchGenre(d, SplitTags(The(q.genre)))
    /\ (Truthy(q.minRating) \/ Truthy(q.maxRating)) =>
          /\ Truthy(q.minRating) => MatchGte(d, ToBound(v, The(q.minRating)))
          /\ Truthy(q.maxRating) => MatchLte(d, ToBound(v, The(q.maxRating)))

\* .sort({ createdAt: -1 }).toArray(): every order the sort may return
SortedByCreatedAt(S) ==
    {f \in [1..Cardinality(S) -> S] :
        /\ \A i, j \in 1..Cardinality(S) : i # j => f[i] # f[j]
        /\ \A i, j \in 1..Cardinality(S) :
              i < j => The(f[i].createdAt) >= The(f[j].createdAt)}

\* a slip: the sort is ascending ({ rating: 1 }, { createdAt: 1 })
KeyLeq(by, d, e) ==
    IF by = "createdAt" THEN The(d.createdAt) <= The(e.createdAt)
    ELSE d.rating = {} \/ (e.rating # {} /\ The(d.rating) <= The(e.rating))

\* the order of .sort({ by: -1 }): d may come before e.  A document without
\* the field sorts as null, below every number.
KeyGeq(by, d, e) ==
    IF by = "createdAt" THEN The(d.createdAt) >= The(e.createdAt)
    ELSE e.rating = {} \/ (d.rating # {} /\ The(d.rating) >= The(e.rating))

\* find().sort({ by: -1 }).limit(k).toArray(): every result the sort may
\* return, documents with equal keys in any order
RECURSIVE SortLimit(_, _, _)
SortLimit(S, by, k) ==
    IF k = 0 \/ S = {} THEN {<<>>}
    ELSE UNION {{<<d>> \o t : t \in SortLimit(S \ {d}, by, k - 1)}
                  : d \in {x \in S : \A y \in S : KeyGeq(by, x, y)}}

(***************************************************************************)
(* The handlers.  A slot holds one request: where its handler stands (pc), *)
(* the handler's locals (req, found: the document findOne returned; looked:*)
(* whether findOne was issued) and, once pc is "done", the response.       *)
(***************************************************************************)
Idle ==
    [pc |-> "idle", req |-> NoReq, looked |-> FALSE, found |-> {}, status |-> 0,
     err |-> "", insertedId |-> {}, body |-> <<>>, count |-> {}]

\* res.status(status).json(...): the handler has answered
Resp(q, status, err, looked, found) ==
    [pc |-> "done", req |-> q, looked |-> looked, found |-> found, status |-> status,
     err |-> err, insertedId |-> {}, body |-> <<>>, count |-> {}]

\* the handler awaits client.connect()
Connecting(q) == [Idle EXCEPT !.pc = "connecting", !.req = q]

\* the handler awaits updateOne or deleteOne
Writing(q, movie) == [Idle EXCEPT !.pc = "write", !.req = q, !.looked = TRUE, !.found = movie]

Out(sl, st, oid) == [slot |-> sl, store |-> st, nextOid |-> oid]

\* a handler whose collection is undefined: the first use throws a TypeError
NoCollection(q) ==
    IF q.op = "create" /\ MissingRequired(q.body)
    THEN Resp(q, 400, "", FALSE, {})
    ELSE Resp(q, 500, "TypeError", FALSE, {})

\* what a handler does with a malformed identifier
BadId(v, q) ==
    IF ChecksId(v)
    THEN Resp(q, 400, "", FALSE, {})
    ELSE Resp(q, 500, "BSONError", FALSE, {})

\* app.get('/movies/:id')
GetMovie(v, q, st, up) ==
    IF ~isValid(q.id) THEN BadId(v, q)
    ELSE IF ~up THEN Resp(q, 500, "MongoError", TRUE, {})
    ELSE LET movie == findOne(st, ObjectId(q.id))
         IN  IF movie = {}
             THEN Resp(q, 404, "", TRUE, {})
             ELSE [Resp(q, 200, "", TRUE, movie) EXCEPT !.body = <<The(movie)>>]

\* app.get('/movies')
ListMovies(v, q, st, up) ==
    IF ~up THEN {Resp(q, 500, "MongoError", TRUE, {})}
    ELSE {[Resp(q, 200, "", TRUE, {}) EXCEPT !.body = b]
            : b \in SortedByCreatedAt({d \in st : Matches(v, q, d)})}

\* app.get('/top-rated')
TopRated(q, st, up) ==
    IF ~up THEN {Resp(q, 500, "MongoError", TRUE, {})}
    ELSE {[Resp(q, 200, "", TRUE, {}) EXCEPT !.body = b]
            : b \in SortLimit(st, "rating", TopRatedLimit)}

\* app.get('/recent')
Recent(q, st, up) ==
    IF ~up THEN {Resp(q, 500, "MongoError", TRUE, {})}
    ELSE {[Resp(q, 200, "", TRUE, {}) EXCEPT !.body = b]
            : b \in SortLimit(st, "createdAt", RecentLimit)}

\* app.get('/my-movies/:email')
MyMovies(q, st, up) ==
    IF ~up THEN {Resp(q, 500, "MongoError", TRUE, {})}
    ELSE {[Resp(q, 200, "", TRUE, {}) EXCEPT !.body = b]
            : b \in SortedByCreatedAt({d \in st : d.addedBy = q.email})}

\* app.get('/stats/count')
Count(q, st, up) ==
    IF ~up THEN Resp(q, 500, "MongoError", TRUE, {})
    ELSE [Resp(q, 200, "", TRUE, {}) EXCEPT !.count = {Cardinality(st)}]

\* app.post('/movies')
AddMovie(q, st, nw, oid, up) ==
    IF MissingRequired(q.body) THEN Out(Resp(q, 400, "", FALSE, {}), st, oid)
    ELSE IF ~up \/ DuplicateKey(st, NewDoc(q.body, nw, oid))
    THEN Out(Resp(q, 500, "MongoError", FALSE, {}), st, oid)
    ELSE Out([Resp(q, 201, "", FALSE, {})
                 EXCEPT !.insertedId = {NewDoc(q.body, nw, oid)._id}],
             insertOne(st, NewDoc(q.body, nw, oid)),
             IF q.body._id = {} THEN oid + 1 ELSE oid)

\* a slip: the ownership test comes before the test that the record exists
UpdateLookupOwnerFirst(v, q, st, up) ==
    IF ~isValid(q.id) THEN BadId(v, q)
    ELSE IF ~up THEN Resp(q, 500, "MongoError", TRUE, {})
    ELSE LET movie == findOne(st, ObjectId(q.id))
         IN  IF {m.addedBy : m \in movie} # {UpdateEmail(q)}
             THEN Resp(q, 403, "", TRUE, movie)
             ELSE IF movie = {} THEN Resp(q, 404, "", TRUE, {})
             ELSE Writing(q, movie)

\* app.put('/movies/:id') up to its updateOne
UpdateLookup(v, q, st, up) ==
    IF ~isValid(q.id) THEN BadId(v, q)
    ELSE IF ~up THEN Resp(q, 500, "MongoError", TRUE, {})
    ELSE LET movie == findOne(st, ObjectId(q.id))
         IN  IF movie = {} THEN Resp(q, 404, "", TRUE, {})
             ELSE IF NotOwner(The(movie), UpdateEmail(q))
             THEN Resp(q, 403, "", TRUE, movie)
             ELSE Writing(q, movie)

\* app.delete('/movies/:id') up to its deleteOne
DeleteLookup(v, q, st, up) ==
    IF ~isValid(q.id) THEN BadId(v, q)
    ELSE IF RequiresEmail(v) /\ ~Truthy(DeleteEmail(v, q))
    THEN Resp(q, 401, "", FALSE, {})
    ELSE IF ~up THEN Resp(q, 500, "MongoError", TRUE, {})
    ELSE LET movie == findOne(st, ObjectId(q.id))
         IN  IF movie = {} THEN Resp(q, 404, "", TRUE, {})
             ELSE IF NotOwner(The(movie), DeleteEmail(v, q))
             THEN Resp(q, 403, "", TRUE, movie)
             ELSE Writing(q, movie)

\* the handler of request q, run from its start to its first answer or write
Handle(v, q, st, nw, oid, up) ==
    CASE q.op = "get" -> {Out(GetMovie(v, q, st, up), st, oid)}
      [] q.op = "list" -> {Out(sl, st, oid) : sl \in ListMovies(v, q, st, up)}
      [] q.op = "top" -> {Out(sl, st, oid) : sl \in TopRated(q, st, up)}
      [] q.op = "recent" -> {Out(sl, st, oid) : sl \in Recent(q, st, up)}
      [] q.op = "mine" -> {Out(sl, st, oid) : sl \in MyMovies(q, st, up)}
      [] q.op = "count" -> {Out(Count(q, st, up), st, oid)}
      [] q.op = "create" -> {AddMovie(q, st, nw, oid, up)}
      [] q.op = "update" -> {Out(UpdateLookup(v, q, st, up), st, oid)}
      [] q.op = "delete" -> {Out(DeleteLookup(v, q, st, up), st, oid)}

\* a slip: the write is not awaited, and its rejection never reaches the catch
WrittenUnawaited(sl, st, up) ==
    LET q == sl.req
        id == ObjectId(q.id)
    IN  [slot |-> Resp(q, 200, "", TRUE, sl.found),
         store |-> IF ~up \/ (q.op = "update" /\ ModifiesId(st, id, StripProtected(q.body)))
                   THEN st
                   ELSE IF q.op = "update" THEN updateOne(st, id, StripProtected(q.body))
                   ELSE deleteOne(st, id)]

\* the awaited updateOne or deleteOne runs and the handler answers
Written(sl, st, up) ==
    LET q == sl.req
        id == ObjectId(q.id)
    IN  IF ~up \/ (q.op = "update" /\ ModifiesId(st, id, StripProtected(q.body)))
        THEN [slot |-> Resp(q, 500, "MongoError", TRUE, sl.found), store |-> st]
        ELSE [slot |-> Resp(q, 200, "", TRUE, sl.found),
              store |-> IF q.op = "update"
                        THEN updateOne(st, id, StripProtected(q.body))
                        ELSE deleteOne(st, id)]

(***************************************************************************)
(* The state machine.  Spec starts any of the four files on an empty       *)
(* collection, with no connection yet, and serves one request at a time    *)
(* (one slot; the actions are stated per slot).  The deployment answers    *)
(* throughout: storeUp stays TRUE, and the only 500 of a request the store *)
(* serves comes from an exception of the handler's own making.             *)
(***************************************************************************)
Init ==
    /\ variant \in Variants
    /\ movieCollection = "null"
    /\ storeUp = TRUE
    /\ store = {}
    /\ now = 1
    /\ nextOid = 1
    /\ slot = [s \in {1} |-> Idle]

\* the handler's code from connectDB()'s return on, the collection at hand
Run(s, q) ==
    \E o \in Handle(variant, q, store, now, nextOid, storeUp) :
        /\ slot' = [slot EXCEPT ![s] = o.slot]
        /\ store' = o.store
        /\ nextOid' = o.nextOid

\* a request arrives and its handler runs to its first await on the store
Start(s, q) ==
    /\ slot[s].pc = "idle"
    /\ movieCollection # "exited"
    /\ (q.op = "create" /\ q.body._id = {}) => nextOid <= MaxOid
    /\ IF movieCollection = "handle"
       THEN Run(s, q) /\ UNCHANGED <<variant, movieCollection, storeUp, now>>
       ELSE /\ slot' = [slot EXCEPT ![s] =
                          IF LazyConnect(variant) THEN Connecting(q) ELSE NoCollection(q)]
            /\ UNCHANGED <<variant, movieCollection, storeUp, store, now, nextOid>>

\* connectDB(): client.connect() settles for a handler that awaited it
Connected(s) ==
    /\ slot[s].pc = "connecting"
    /\ IF storeUp
       THEN /\ movieCollection' = "handle"
            /\ Run(s, slot[s].req)
            /\ UNCHANGED <<variant, storeUp, now>>
       ELSE /\ slot' = [slot EXCEPT ![s] =
                          IF SwallowsConnectError(variant)
                          THEN NoCollection(slot[s].req)
                          ELSE Resp(slot[s].req, 500, "MongoError", FALSE, {})]
            /\ UNCHANGED <<variant, movieCollection, storeUp, store, now, nextOid>>

\* part_001 calls connectDB() once, when the module is loaded
StartupConnect ==
    /\ ~LazyConnect(variant)
    /\ movieCollection = "null"
    /\ storeUp
    /\ movieCollection' = "handle"
    /\ UNCHANGED <<variant, storeUp, store, now, nextOid, slot>>

\* part_001: the connectDB() called at load fails, and process.exit(1) ends
\* the server
StartupFails ==
    /\ ~LazyConnect(variant)
    /\ movieCollection = "null"
    /\ ~storeUp
    /\ movieCollection' = "exited"
    /\ UNCHANGED <<variant, storeUp, store, now, nextOid, slot>>

\* the MongoDB deployment stops answering: every operation on it is rejected
Outage ==
    /\ storeUp
    /\ storeUp' = FALSE
    /\ UNCHANGED <<variant, movieCollection, store, now, nextOid, slot>>

\* the MongoDB deployment answers again
Recovery ==
    /\ ~storeUp
    /\ storeUp' = TRUE
    /\ UNCHANGED <<variant, movieCollection, store, now, nextOid, slot>>

\* the awaited write of PUT or DELETE runs at the store and the handler answers
Write(s) ==
    /\ slot[s].pc = "write"
    /\ slot' = [slot EXCEPT ![s] = Written(slot[s], store, storeUp).slot]
    /\ store' = Written(slot[s], store, storeUp).store
    /\ UNCHANGED <<variant, movieCollection, storeUp, now, nextOid>>

\* the response has been sent: the slot is free for the next request
Finish(s) ==
    /\ slot[s].pc = "done"
    /\ slot' = [slot EXCEPT ![s] = Idle]
    /\ UNCHANGED <<variant, movieCollection, storeUp, store, now, nextOid>>

\* time passes
Tick ==
    /\ now < MaxClock
    /\ now' = now + 1
    /\ UNCHANGED <<variant, movieCollection, storeUp, store, nextOid, slot>>

Next ==
    \/ \E s \in DOMAIN slot : \E q \in CrudReqs : Start(s, q)
    \/ \E s \in DOMAIN slot : Connected(s)
    \/ \E s \in DOMAIN slot : Write(s)
    \/ \E s \in DOMAIN slot : Finish(s)
    \/ StartupConnect
    \/ Tick

Spec == Init /\ [][Next]_vars

(***************************************************************************)
(* GET /movies on a populated collection: the collection holds up to       *)
(* MaxListDocs documents that POST /movies stored, and List requests run.  *)
(***************************************************************************)
\* the i-th document stored, if it is there: its rating and genre as posted
ListDocs(i) ==
    {{}} \cup
    {{Doc(GenOid(i), {"T"}, {"a@x.com"}, {IF i < MaxClock THEN i ELSE MaxClock}, r, g)}
        : r \in {{}, {0}, {7}, {10}}, g \in {{}, {{"Action"}}}}

ListStores ==
    {UNION {f[i] : i \in 1..MaxListDocs} :
        f \in {g \in [1..MaxListDocs -> UNION {ListDocs(i) : i \in 1..MaxListDocs}] :
                    \A i \in 1..MaxListDocs : g[i] \in ListDocs(i)}}

InitList ==
    /\ variant \in Variants
    /\ movieCollection = "handle"
    /\ storeUp = TRUE
    /\ store \in ListStores
    /\ now = MaxClock
    /\ nextOid = MaxListDocs + 1
    /\ slot = [s \in {1} |-> Idle]

NextList ==
    \/ \E s \in DOMAIN slot : \E q \in ListReqs : Start(s, q)
    \/ \E s \in DOMAIN slot : Finish(s)

SpecList == InitList /\ [][NextList]_vars

(***************************************************************************)
(* GET /recent and GET /top-rated on a populated collection: the first n   *)
(* documents POST /movies stored, n up to MaxTopDocs.  Two documents may   *)
(* be created within one reading of the clock; ratings are 7 or 10, and    *)
(* the first document may have been posted without a rating.               *)
(***************************************************************************)
TopDocs(i) ==
    {Doc(GenOid(i), {"T"}, {"a@x.com"}, {(i + 1) \div 2}, r, {})
        : r \in IF i = 1 THEN {{}, {7}, {10}} ELSE {{7}, {10}}}

RECURSIVE TopStoresOf(_)
TopStoresOf(n) ==
    IF n = 0 THEN {{}}
    ELSE {st \cup {d} : st \in TopStoresOf(n - 1), d \in TopDocs(n)}

TopStores == UNION {TopStoresOf(n) : n \in 0..MaxTopDocs}

InitTop ==
    /\ variant \in Variants
    /\ movieCollection = "handle"
    /\ storeUp = TRUE
    /\ store \in TopStores
    /\ now = (MaxTopDocs + 1) \div 2
    /\ nextOid = MaxTopDocs + 1
    /\ slot = [s \in {1} |-> Idle]

NextTop ==
    \/ \E s \in DOMAIN slot : \E q \in TopReqs : Start(s, q)
    \/ \E s \in DOMAIN slot : Finish(s)

SpecTop == InitTop /\ [][NextTop]_vars

(***************************************************************************)
(* Updates by the owner, one request at a time, on a populated collection: *)
(* the record of a@x.com they name and, possibly, a record of b@x.com.     *)
(***************************************************************************)
MergeStores ==
    {{Doc(GenOid(1), {"T"}, {"a@x.com"}, {1}, r, g)} \cup other
        : r \in {{}, {7}}, g \in {{}, {{"Action"}}},
          other \in {{}, {Doc(GenOid(2), {"T"}, {"b@x.com"}, {1}, {7}, {{"Action"}})}}}

InitMerge ==
    /\ variant \in Variants
    /\ movieCollection = "handle"
    /\ storeUp = TRUE
    /\ store \in MergeStores
    /\ now = 1
    /\ nextOid = 3
    /\ slot = [s \in {1} |-> Idle]

NextMerge ==
    \/ \E s \in DOMAIN slot : \E q \in MergeReqs : Start(s, q)
    \/ \E s \in DOMAIN slot : Write(s)
    \/ \E s \in DOMAIN slot : Finish(s)

SpecMerge == InitMerge /\ [][NextMerge]_vars

(***************************************************************************)
(* A deployment that may stop answering, and answer again, at any moment:  *)
(* before the first connection, between requests, and between a handler's  *)
(* lookup and its write.  One request at a time, from an empty collection. *)
(* An operation issued on the deployment settles: it completes, or the     *)
(* driver rejects it when its server selection times out; hence the        *)
(* fairness of the steps in which client.connect() and a write settle.     *)
(***************************************************************************)
InitFault ==
    /\ variant \in Variants
    /\ movieCollection = "null"
    /\ storeUp = TRUE
    /\ store = {}
    /\ now = 1
    /\ nextOid = 1
    /\ slot = [s \in {1} |-> Idle]

NextFault ==
    \/ \E s \in DOMAIN slot : \E q \in FaultReqs : Start(s, q)
    \/ \E s \in DOMAIN slot : Connected(s)
    \/ \E s \in DOMAIN slot : Write(s)
    \/ \E s \in DOMAIN slot : Finish(s)
    \/ StartupConnect
    \/ StartupFails
    \/ Outage
    \/ Recovery

SpecFault ==
    /\ InitFault
    /\ [][NextFault]_vars
    /\ WF_vars(Connected(1))
    /\ WF_vars(Write(1))

(***************************************************************************)
(* Requests that overlap: up to MaxSlots handlers are in flight at once,   *)
(* each suspended at its awaits (client.connect(), updateOne, deleteOne)   *)
(* while the others run.  The server starts with no connection, on a       *)
(* collection that holds one record of a@x.com.                            *)
(***************************************************************************)
InitRace ==
    /\ variant \in Variants
    /\ movieCollection = "null"
    /\ storeUp = TRUE
    /\ store = {Doc(GenOid(1), {"T"}, {"a@x.com"}, {1}, {7}, {})}
    /\ now = 1
    /\ nextOid = 2
    /\ slot = [s \in 1..MaxSlots |-> Idle]

NextRace ==
    \/ \E s \in DOMAIN slot : \E q \in RaceReqs : Start(s, q)
    \/ \E s \in DOMAIN slot : Connected(s)
    \/ \E s \in DOMAIN slot : Write(s)
    \/ \E s \in DOMAIN slot : Finish(s)
    \/ StartupConnect

SpecRace == InitRace /\ [][NextRace]_vars

(***************************************************************************)
(* The claims.  They are about requests the store serves: a handler whose  *)
(* collection handle is undefined (part_001 before its start-up connection *)
(* settled) answers 500 with a TypeError, the InternalError of an          *)
(* unavailable store, and is no case of C1..C10; C14 is the claim about    *)
(* the store that does not answer.                                         *)
(***************************************************************************)
HadCollection(sl) == sl.err # "TypeError"

\* in this step the handler in slot s runs its checks and its lookup
Looks(s) == slot[s].pc \in {"idle", "connecting"} /\ slot'[s].pc \in {"done", "write"}

\* in this step the handler in slot s sends its response
Answers(s) == slot[s].pc # "done" /\ slot'[s].pc = "done"

\* the record a request's identifier names, in store st
Target(q, st) == IF isValid(q.id) THEN findOne(st, ObjectId(q.id)) ELSE {}

\* the caller email a handler takes from its request
CallerEmail(q) == IF q.op = "delete" THEN DeleteEmail(variant, q) ELSE UpdateEmail(q)

\* the first non-empty of header, query parameter and body field
FirstNonEmpty(q) ==
    IF Truthy(q.hdr) THEN q.hdr
    ELSE IF Truthy(q.qry) THEN q.qry
    ELSE IF Truthy(q.body.userEmail) THEN q.body.userEmail
    ELSE {}

C2_ProtectedFieldsKept ==
    [][\A d \in store :
          \/ \E e \in store' :
                e._id = d._id /\ e.addedBy = d.addedBy /\ e.createdAt = d.createdAt
          \/ \E s \in DOMAIN slot :
                /\ slot[s].pc = "write" /\ slot[s].req.op = "delete"
                /\ slot'[s].pc = "done" /\ slot'[s].status = 200
                /\ d._id = ObjectId(slot[s].req.id)]_vars

\* the owner's Update that named another addedBy was answered 200, and the
\* record still has the addedBy it was created with
C2_Witness ==
    \E s \in DOMAIN slot :
        /\ slot[s].pc = "done" /\ slot[s].req.op = "update" /\ slot[s].status = 200
        /\ slot[s].req.body.addedBy # {}
        /\ slot[s].req.body.addedBy # The(slot[s].found).addedBy
        /\ \E d \in store :
              /\ d._id = The(slot[s].found)._id
              /\ d.addedBy = The(slot[s].found).addedBy
              /\ d.createdAt = The(slot[s].found).createdAt
              /\ d.rating # The(slot[s].found).rating

\* C3: GetById, Update and Delete with a malformed identifier are answered
\* 400, and no store lookup was issued for the request.
C3_MalformedIdIs400 ==
    \A s \in DOMAIN slot :
        (/\ slot[s].pc = "done"
         /\ slot[s].req.op \in {"get", "update", "delete"}
         /\ HadCollection(slot[s])
         /\ ~isValid(slot[s].req.id))
        => (slot[s].status = 400 /\ ~slot[s].looked)

\* C4: a Delete with a valid identifier and no caller email in header, query
\* or body is answered 401 and removes nothing, whether or not the record
\* exists; a Delete with a malformed identifier is answered 400 even without
\* a caller email.
C4_DeleteWithoutEmail ==
    [][\A s \in DOMAIN slot :
          LET q == slot'[s].req
          IN  (/\ Looks(s)
               /\ q.op = "delete"
               /\ HadCollection(slot'[s])
               /\ FirstNonEmpty(q) = {})
              => /\ slot'[s].pc = "done"
                 /\ slot'[s].status = IF isValid(q.id) THEN 401 ELSE 400
                 /\ store' = store]_vars

\* C5: in Delete the ownership check compares the record's addedBy with the
\* first non-empty of header, query parameter and body field: on an existing
\* record the request goes on to its deleteOne exactly when that value is the
\* record's addedBy, and is answered 403 exactly when it is another email.
C5_FirstNonEmptyDecides ==
    [][\A s \in DOMAIN slot :
          LET q == slot'[s].req
          IN  (/\ Looks(s)
               /\ q.op = "delete"
               /\ HadCollection(slot'[s])
               /\ Target(q, store) # {}
               /\ FirstNonEmpty(q) # {})
              => IF FirstNonEmpty(q) = The(Target(q, store)).addedBy
                 THEN slot'[s].pc = "write"
                 ELSE slot'[s].pc = "done" /\ slot'[s].status = 403]_vars

\* C6: an Update with a malformed identifier is answered neither 404 nor 403;
\* with a valid identifier that names no record it is answered 404 whatever
\* caller email it carries; and it is answered 403 only when the identifier
\* names a record of the store.
C6_UpdateCheckOrder ==
    [][\A s \in DOMAIN slot :
          LET q == slot'[s].req
          IN  (Looks(s) /\ q.op = "update" /\ HadCollection(slot'[s]))
              => /\ ~isValid(q.id) => slot'[s].status \notin {403, 404}
                 /\ (isValid(q.id) /\ Target(q, store) = {})
                       => (slot'[s].pc = "done" /\ slot'[s].status = 404)
                 /\ slot'[s].status = 403 => Target(q, store) # {}]_vars

\* an Update that names no record and carries a caller email was answered 404
C6_Witness ==
    \E s \in DOMAIN slot :
        /\ slot[s].pc = "done" /\ slot[s].req.op = "update" /\ slot[s].status = 404
        /\ Truthy(slot[s].req.body.userEmail)
        /\ store # {} /\ Target(slot[s].req, store) = {}

\* C7: a Create with non-empty title and addedBy that is answered 201 has
\* stored one new record, under the identifier it returns, whose createdAt
\* is the server clock's reading in that step, whatever createdAt the
\* payload holds.
C7_CreatedAtIsServerTime ==
    [][\A s \in DOMAIN slot :
          LET q == slot'[s].req
          IN  (/\ Answers(s) /\ q.op = "create" /\ slot'[s].status = 201
               /\ Truthy(q.body.title) /\ Truthy(q.body.addedBy))
              => \E d \in store' \ store :
                    /\ store' \ store = {d}
                    /\ slot'[s].insertedId = {d._id}
                    /\ d.createdAt = {now}]_vars

\* a Create whose payload held another createdAt was answered 201 and the
\* record it stored does not have the payload's createdAt
C7_Witness ==
    \E s \in DOMAIN slot :
        /\ slot[s].pc = "done" /\ slot[s].req.op = "create" /\ slot[s].status = 201
        /\ slot[s].req.body.createdAt = {ClientTime}
        /\ \E d \in store :
              /\ slot[s].insertedId = {d._id}
              /\ d.createdAt # {ClientTime}
              /\ The(d.createdAt) <= now

\* C8: a Create whose title or addedBy is missing or empty is answered 400
\* and stores nothing; every other Create is answered 201 and adds exactly
\* one record to the store, leaving the records that were there as they were.
C8_CreateValidation ==
    [][\A s \in DOMAIN slot :
          LET q == slot'[s].req
          IN  (Answers(s) /\ q.op = "create" /\ HadCollection(slot'[s]))
              => IF ~Truthy(q.body.title) \/ ~Truthy(q.body.addedBy)
                 THEN slot'[s].status = 400 /\ store' = store
                 ELSE /\ slot'[s].status = 201
                      /\ store \subseteq store'
                      /\ Cardinality(store' \ store) = 1]_vars

\* C9: the identifier a Create answered 201 returns is an ObjectId the store
\* generated, is not the _id the payload held, and names exactly one record.
C9_GeneratedId ==
    \A s \in DOMAIN slot :
        (slot[s].pc = "done" /\ slot[s].req.op = "create" /\ slot[s].status = 201)
        => \A i \in slot[s].insertedId :
              /\ i.t = "oid"
              /\ slot[s].req.body._id # {} => i # StrId(The(slot[s].req.body._id))
              /\ Cardinality(findOne(store, i)) = 1

\* the number a query string spells
Numeral(str) == CASE str = "0" -> 0 [] str = "7" -> 7 [] str = "9" -> 9

\* a bound is given by a numeral; it is not given when absent or empty
Given(o) == o \in {{"0"}, {"7"}, {"9"}}

NotGiven(o) == o \in {{}, {""}}

\* the rating of document d lies in the inclusive range the query gives
InRange(d, q) ==
    /\ Given(q.minRating) => (d.rating # {} /\ The(d.rating) >= Numeral(The(q.minRating)))
    /\ Given(q.maxRating) => (d.rating # {} /\ The(d.rating) <= Numeral(The(q.maxRating)))

Listed(sl) == {sl.body[i] : i \in 1..Len(sl.body)}

\* C10: a List whose rating bounds are numerals (or not given) returns, with
\* no genre filter, exactly the records of the store whose rating lies in the
\* inclusive range of the bounds given, each once; with a genre filter it
\* returns only such records.
C10_RatingRange ==
    \A s \in DOMAIN slot :
        LET q == slot[s].req
        IN  (/\ slot[s].pc = "done" /\ q.op = "list" /\ slot[s].status = 200
             /\ (Given(q.minRating) \/ NotGiven(q.minRating))
             /\ (Given(q.maxRating) \/ NotGiven(q.maxRating)))
            => /\ Listed(slot[s]) \subseteq {d \in store : InRange(d, q)}
               /\ Len(slot[s].body) = Cardinality(Listed(slot[s]))
               /\ ~Truthy(q.genre) => Listed(slot[s]) = {d \in store : InRange(d, q)}

\* a List with minRating=7 and maxRating=9 returned the record rated 7 and
\* left out the record rated 10
C10_Witness ==
    \E s \in DOMAIN slot :
        /\ slot[s].pc = "done" /\ slot[s].req.op = "list"
        /\ slot[s].req.minRating = {"7"} /\ slot[s].req.maxRating = {"9"}
        /\ slot[s].req.genre = {}
        /\ \E d \in store : d.rating = {7} /\ d \in Listed(slot[s])
        /\ \E d \in store : d.rating = {10} /\ d \notin Listed(slot[s])

\* what a record counts for in a ranking: its createdAt, or its rating, a
\* record without a rating counting below every rating
Score(by, d) ==
    IF by = "createdAt" THEN The(d.createdAt)
    ELSE IF d.rating = {} THEN -1 ELSE The(d.rating)

\* sequence b lists min(k, |st|) documents of st, each once, in descending
\* order of score, and no document left out scores above a listed one
IsTopOf(b, st, by, k) ==
    /\ Len(b) = IF Cardinality(st) < k THEN Cardinality(st) ELSE k
    /\ \A i \in 1..Len(b) : b[i] \in st
    /\ \A i, j \in 1..Len(b) : i < j => (b[i] # b[j] /\ Score(by, b[i]) >= Score(by, b[j]))
    /\ \A d \in st : (\A i \in 1..Len(b) : b[i] # d) =>
          \A i \in 1..Len(b) : Score(by, b[i]) >= Score(by, d)

\* C11: whatever the store holds, Recent is answered 200 with at most 6
\* records, the most recently created ones of the store in descending
\* createdAt order, and TopRated is answered 200 with at most 5 records, the
\* highest-rated ones of the store in descending rating order (a record
\* without a rating counting as rated lowest).
C11_RecentAndTopRated ==
    \A s \in DOMAIN slot :
        (slot[s].pc = "done" /\ slot[s].req.op \in {"top", "recent"})
        => /\ slot[s].status = 200
           /\ slot[s].req.op = "recent" =>
                 (Len(slot[s].body) <= 6 /\ IsTopOf(slot[s].body, store, "createdAt", 6))
           /\ slot[s].req.op = "top" =>
                 (Len(slot[s].body) <= 5 /\ IsTopOf(slot[s].body, store, "rating", 5))

\* Recent on a store of more than 6 records returned 6 of them and left out
\* the oldest
C11_Witness ==
    \E s \in DOMAIN slot :
        /\ slot[s].pc = "done" /\ slot[s].req.op = "recent"
        /\ Cardinality(store) > 6 /\ Len(slot[s].body) = 6
        /\ \E d \in store : d.createdAt = {1} /\ d \notin Listed(slot[s])

\* the handlers that have called client.connect() and await it
Connectors == {s \in DOMAIN slot : slot[s].pc = "connecting"}

\* C12: the connection is initialised once: at no time do two requests each
\* await a client.connect() of their own, and once the handle is cached no
\* request is still making a connection attempt.
C12_ConnectOnce ==
    /\ Cardinality(Connectors) <= 1
    /\ movieCollection = "handle" => Connectors = {}

\* record d with the non-protected fields a payload names set to the values
\* the payload gives them
Merged(d, body) ==
    [_id |-> d._id, addedBy |-> d.addedBy, createdAt |-> d.createdAt,
     title |-> IF body.title = {} THEN d.title ELSE body.title,
     rating |-> IF body.rating = {} THEN d.rating ELSE body.rating,
     genre |-> IF body.genre = {} THEN d.genre ELSE body.genre]

\* C13: the step in which the owner's Update is answered 200 replaces the
\* target record by the record whose title, rating and genre are the
\* payload's where the payload names them and the target's where it does
\* not, and leaves every other record of the store as it was; and a GetById
\* answered 200 returns the record the store holds under the identifier.
C13_PartialMerge ==
    [][\A s \in DOMAIN slot :
          LET q == slot'[s].req
          IN  /\ (Answers(s) /\ q.op = "update" /\ slot'[s].status = 200)
                    => \E d \in Target(q, store) :
                          store' = (store \ {d}) \cup {Merged(d, q.body)}
              /\ (Answers(s) /\ q.op = "get" /\ slot'[s].status = 200)
                    => /\ Len(slot'[s].body) = 1
                       /\ {slot'[s].body[1]} = Target(q, store')]_vars

\* the owner's Update that named a rating and no title was answered 200: the
\* record has the rating submitted and the title it had, and the record of
\* b@x.com is in the store
C13_Witness ==
    \E s \in DOMAIN slot :
        /\ slot[s].pc = "done" /\ slot[s].req.op = "update" /\ slot[s].status = 200
        /\ slot[s].req.body.rating = {10} /\ slot[s].req.body.title = {}
        /\ The(slot[s].found).rating # {10}
        /\ \E d \in Target(slot[s].req, store) :
              d.rating = {10} /\ d.title = The(slot[s].found).title /\ d.title = {"T"}
        /\ \E e \in store : e.addedBy = {"b@x.com"}

\* in this step the awaited write of the request in slot s settles
Settles(s) == slot[s].pc = "write" /\ slot'[s].pc = "done"

\* the request passes the checks of its input, and so needs the collection
NeedsStore(q) ==
    CASE q.op = "create" -> Truthy(q.body.title) /\ Truthy(q.body.addedBy)
      [] q.op \in {"get", "update"} -> isValid(q.id)
      [] q.op = "delete" -> isValid(q.id) /\ FirstNonEmpty(q) # {}
      [] OTHER -> TRUE

\* C14: while the deployment does not answer, every step in which a handler
\* runs or its awaited operation settles ends the request: with a response
\* that is no success and with the store as it was, and, for a request that
\* needs the collection, with 500 and an error message.  A request answered
\* once is not answered again.  And no request stays suspended: a handler
\* that awaits client.connect() or a write answers eventually.
C14_StoreFailureIs500 ==
    /\ [][\A s \in DOMAIN slot :
             LET q == slot'[s].req
             IN  /\ ((Looks(s) \/ Settles(s)) /\ ~storeUp)
                       => /\ slot'[s].pc = "done"
                          /\ slot'[s].status \notin {200, 201}
                          /\ store' = store
                          /\ NeedsStore(q) => (slot'[s].status = 500 /\ slot'[s].err # "")
                 /\ slot[s].pc = "done" => (slot'[s] = slot[s] \/ slot'[s] = Idle)]_vars
    /\ (slot[1].pc \in {"connecting", "write"}) ~> (slot[1].pc = "done")

\* the owner's Update found its record, the deployment stopped answering
\* before the updateOne, and the Update was answered 500, the record as it was
C14_Witness ==
    \E s \in DOMAIN slot :
        /\ slot[s].pc = "done" /\ slot[s].req.op = "update" /\ slot[s].status = 500
        /\ slot[s].err = "MongoError" /\ ~storeUp
        /\ slot[s].found # {} /\ slot[s].found \subseteq store

\* C15: whatever the interleaving of the Updates and Deletes in flight, the
\* step in which the write of one of them settles and is answered 200 finds
\* the record it names in the store: a Delete removes it then (so that no
\* second Delete of the record is answered 200), and an Update leaves the
\* record with the payload's fields applied.
C15_SuccessHadRecord ==
    [][\A s \in DOMAIN slot :
          LET q == slot[s].req
          IN  (Settles(s) /\ q.op \in {"update", "delete"} /\ slot'[s].status = 200)
              => \E d \in Target(q, store) :
                    IF q.op = "delete" THEN d \notin store'
                    ELSE Merged(d, q.body) \in store']_vars

====
